---------------------------- MODULE Spec2Model ----------------------------
(***************************************************************************)
(* Trading Clocks: the market session clock engine (timezone.ts), i.e.     *)
(* parseTimeInTimezone, getMarketStatus and its helpers, the holiday       *)
(* lookup (holidays.ts) and the render tick of main.ts that drives them    *)
(* (Spec); the local-time-to-instant converters on their own               *)
(* (ConverterSpec); and the simulated clock of timeService.ts under its    *)
(* control calls (ClockSpec).                                              *)
(*                                                                         *)
(* Time is measured in minutes.  Instant 0 is 00:00 UTC of the Monday of   *)
(* the modelled week; a calendar date (the 'YYYY-MM-DD' strings of the     *)
(* code) is the number of days since that Monday.  An 'HH:MM' string is    *)
(* the pair <<hours, minutes>>; null / undefined / '' is <<>>.             *)
(*                                                                         *)
(* Two weeks of 2026 are modelled: "spring" starts on Monday 2026-03-02    *)
(* (America/New_York goes from UTC-5 to UTC-4 on Sunday 2026-03-08 at      *)
(* 07:00 UTC) and "autumn" starts on Monday 2026-10-26 (America/New_York   *)
(* goes from UTC-4 to UTC-5 on Sunday 2026-11-01 at 06:00 UTC).            *)
(***************************************************************************)
EXTENDS Integers, Sequences, FiniteSets, TLC

VARIABLES
    week,           \* which week of 2026 the real clock is in
    viewerTz,       \* the host (browser) timezone, used by Date.setDate
    holidaysCache,  \* holidays.ts: holidaysCache (year -> marketId -> data)
    timeOverrides,  \* main.ts: timeOverrides (marketId -> TimeOverride)
    now,            \* the instant timeService.getNow() returns at the render
    statuses,       \* marketId -> result of getMarketStatus at the last render
    realNow,        \* Date.now(), the real clock of the host
    clockOffset,    \* timeService.ts: clockOffset
    isPaused,       \* timeService.ts: isPaused
    frozenTime,     \* timeService.ts: frozenTime
    timezoneOverride, \* timeService.ts: timezoneOverride (Null when not set)
    lastCall,       \* the last call made on timeService, and when it was made
    probe           \* the last application of a converter, and its result

engineVars == <<week, viewerTz, holidaysCache, timeOverrides, now, statuses>>

clockVars == <<clockOffset, isPaused, frozenTime, timezoneOverride>>

vars == <<engineVars, realNow, clockVars, lastCall, probe>>

(***************************************************************************)
(* Bounds of the model.                                                    *)
(***************************************************************************)
\* last modelled day of the real clock (day 0 is a Monday, 8 the Tuesday after)
MaxDay == 8

(***************************************************************************)
(* The platform: Intl.DateTimeFormat and the local-time methods of Date.   *)
(***************************************************************************)
NY == "America/New_York"
TOKYO == "Asia/Tokyo"

MinutesPerDay == 1440

\* the fixed-offset zones of the tz database, Etc/GMT+12 (UTC-12:00) to
\* Etc/GMT-14 (UTC+14:00); the sign of the name is the reverse of the offset
EtcZones ==
    << "Etc/GMT+12", "Etc/GMT+11", "Etc/GMT+10", "Etc/GMT+9", "Etc/GMT+8", "Etc/GMT+7",
       "Etc/GMT+6", "Etc/GMT+5", "Etc/GMT+4", "Etc/GMT+3", "Etc/GMT+2", "Etc/GMT+1",
       "Etc/GMT", "Etc/GMT-1", "Etc/GMT-2", "Etc/GMT-3", "Etc/GMT-4", "Etc/GMT-5",
       "Etc/GMT-6", "Etc/GMT-7", "Etc/GMT-8", "Etc/GMT-9", "Etc/GMT-10", "Etc/GMT-11",
       "Etc/GMT-12", "Etc/GMT-13", "Etc/GMT-14" >>

EtcOffset(tz) == ((CHOOSE i \in DOMAIN EtcZones : EtcZones[i] = tz) - 13) * 60

\* the UTC-offset rule of a zone in the modelled week: the offset before the
\* transition instant `at`, and the offset from `at` on
TzRule(tz) ==
    IF tz = NY
    THEN IF week = "spring"
         THEN [before |-> -300, after |-> -240, at |-> 6 * MinutesPerDay + 420]
         ELSE [before |-> -240, after |-> -300, at |-> 6 * MinutesPerDay + 360]
    ELSE IF \E i \in DOMAIN EtcZones : EtcZones[i] = tz
    THEN [before |-> EtcOffset(tz), after |-> EtcOffset(tz), at |-> 0]
    ELSE [before |-> 540, after |-> 540, at |-> 0]

TzOffset(tz, t) ==
    LET r == TzRule(tz) IN IF t < r.at THEN r.before ELSE r.after

\* the wall clock (minutes since local midnight of day 0) a formatter with
\* timeZone: tz shows for instant t
TzLocal(tz, t) == t + TzOffset(tz, t)

\* first day of the modelled week as a day of the year 2026 (1 = Jan 1)
WeekStartDayOfYear == IF week = "spring" THEN 61 ELSE 299

\* parseInt(dateStr.substring(0, 4)) of a date of the model
YearOfDate(date) == IF WeekStartDayOfYear + date <= 365 THEN 2026 ELSE 2027

\* Date local time -> instant in the host zone; a skipped or repeated wall
\* time is read with the offset in force before the transition
LocalToUTC(l) ==
    LET r == TzRule(viewerTz)
        t1 == l - r.before
        t2 == l - r.after
    IN  IF t1 < r.at THEN t1 ELSE IF t2 >= r.at THEN t2 ELSE t1

\* d.setDate(d.getDate() + k) on a Date holding instant t
SetDatePlus(t, k) == LocalToUTC(TzLocal(viewerTz, t) + k * MinutesPerDay)


(***************************************************************************)
(* holidays.ts                                                             *)
(*                                                                         *)
(* A table entry of holidaysCache[year][marketId] is either a list of      *)
(* Holiday records, [kind |-> "list", entries |-> <<...>>], or a string    *)
(* naming another market, [kind |-> "alias", target |-> id].               *)
(***************************************************************************)
\* the value of an absent property / a find() that found nothing
Undefined == [kind |-> "undefined"]

Holiday(date, status, closeTime) ==
    [kind |-> "holiday", date |-> date, status |-> status, closeTime |-> closeTime]

HolidayList(entries) == [kind |-> "list", entries |-> entries]
Alias(target) == [kind |-> "alias", target |-> target]

\* obj[key] of a JavaScript object held as a function
Lookup(obj, key) == IF key \in DOMAIN obj THEN obj[key] ELSE Undefined

\* variant of getMarketHolidays: an alias entry is not followed
getMarketHolidays_NoAlias(marketId, year) ==
    LET yearData == Lookup(holidaysCache, year) IN
    IF yearData = Undefined THEN HolidayList(<<>>)
    ELSE LET marketData == Lookup(yearData, marketId)
         IN  IF marketData = Undefined \/ marketData.kind = "alias"
             THEN HolidayList(<<>>)
             ELSE marketData

getMarketHolidays(marketId, year) ==
    LET yearData == Lookup(holidaysCache, year) IN
    IF yearData = Undefined THEN HolidayList(<<>>)
    ELSE LET marketData == Lookup(yearData, marketId)
             resolved == IF marketData.kind = "alias"
                         THEN Lookup(yearData, marketData.target)
                         ELSE marketData
         IN  IF resolved = Undefined THEN HolidayList(<<>>) ELSE resolved

\* holidays.find(h => h.date === dateStr)
RECURSIVE FindFrom(_, _, _)
FindFrom(entries, dateStr, i) ==
    IF i > Len(entries) THEN Undefined
    ELSE IF entries[i].date = dateStr THEN entries[i]
    ELSE FindFrom(entries, dateStr, i + 1)

\* what calling .find on a value that is not an array ends in
TypeError == [kind |-> "TypeError"]

FindHoliday(holidays, dateStr) ==
    IF holidays.kind = "list" THEN FindFrom(holidays.entries, dateStr, 1) ELSE TypeError

(***************************************************************************)
(* timeService.ts: the simulated clock.  getNow, getTimezone and           *)
(* isSimulationActive read the state; the other methods are the actions    *)
(* further down.                                                           *)
(***************************************************************************)
\* string | null: the value of a timezoneOverride that is not set
Null == "null"

\* variant of getNow: a paused clock keeps running
getNow_IgnoresPause == realNow + clockOffset

getNow == IF isPaused THEN frozenTime ELSE realNow + clockOffset

getTimezone == timezoneOverride

\* variant of isSimulationActive: the pause is not looked at
isSimulationActive_NoPause == clockOffset # 0 \/ timezoneOverride # Null

isSimulationActive == clockOffset # 0 \/ isPaused \/ timezoneOverride # Null

(***************************************************************************)
(* timezone.ts: parseTimeInTimezone                                        *)
(***************************************************************************)
\* the 'day boundary crossing' correction of the derived offset
normalizeOffset(offsetMinutes) ==
    LET o1 == IF offsetMinutes > 720 THEN offsetMinutes - MinutesPerDay
              ELSE offsetMinutes
    IN  IF o1 < -720 THEN o1 + MinutesPerDay ELSE o1

\* timeStr on the timezone-local date of instant t (t is what getNow() gave)
parseTimeInTimezone(timeStr, timezone, t) ==
    LET date == TzLocal(timezone, t) \div MinutesPerDay
        hours == timeStr[1]
        minutes == timeStr[2]
        \* new Date(targetLocalISO + 'Z')
        tempDate == date * MinutesPerDay + hours * 60 + minutes
        tzWall == TzLocal(timezone, tempDate) % MinutesPerDay
        tzHour == tzWall \div 60
        tzMinute == tzWall % 60
        tempHours == (tempDate % MinutesPerDay) \div 60
        tempMinutes == tempDate % 60
        offsetMinutes ==
            normalizeOffset((tzHour * 60 + tzMinute) - (tempHours * 60 + tempMinutes))
    IN  tempDate - offsetMinutes

(***************************************************************************)
(* dateUtils.ts: getDateFromIsoInTz.  isoStr is held as the minutes from   *)
(* 00:00 of day 0 to the wall-clock time it spells.                        *)
(***************************************************************************)
\* diffMins before the correction: the timezone's hour:minute of the instant
\* against its UTC hour:minute
rawDiffMins(utcAssume, timezone) ==
    LET actual == TzLocal(timezone, utcAssume) % MinutesPerDay
        actualH == actual \div 60
        actualM == actual % 60
        targetH == (utcAssume % MinutesPerDay) \div 60
        targetM == utcAssume % 60
    IN  (actualH * 60 + actualM) - (targetH * 60 + targetM)

getDateFromIsoInTz(isoStr, timezone) ==
    LET utcAssume == isoStr
        diffMins == normalizeOffset(rawDiffMins(utcAssume, timezone))
    IN  utcAssume - diffMins

(***************************************************************************)
(* timezone.ts: getMarketStatus and its helpers                            *)
(***************************************************************************)
\* a || b on 'HH:MM' strings (null, undefined and '' are falsy)
OrElse(a, b) == IF a # <<>> THEN a ELSE b

effectiveOpenTime(market, overrides) == OrElse(overrides.openTime, market.openTime)

effectiveCloseTime(market, overrides) == OrElse(overrides.closeTime, market.closeTime)

\* 'YYYY-MM-DD' of instant t in the market's timezone
getMarketDateStr(market, t) == TzLocal(market.timezone, t) \div MinutesPerDay

\* day of week of instant t in the market's timezone, 0 = Sunday .. 6 = Saturday
getDayInMarket(market, t) == (getMarketDateStr(market, t) + 1) % 7

getHolidayForDate(market, t) ==
    LET dateStr == getMarketDateStr(market, t)
        year == YearOfDate(dateStr)
    IN  FindHoliday(getMarketHolidays(market.id, year), dateStr)

\* variant of maxAttempts: one iteration more
maxAttempts_OneMore == 14 + 1

maxAttempts == 14

\* variant of weekendSkip: a Saturday candidate moves on to Tuesday
weekendSkip_TooFar(candidateDay) == IF candidateDay = 0 THEN 1 ELSE 3

\* the number of days the search moves on from a weekend day
weekendSkip(candidateDay) == IF candidateDay = 0 THEN 1 ELSE 2

\* the test that makes the search move on from a weekday
isClosedHoliday(holiday) == holiday # Undefined /\ holiday.status = "closed"

\* the while loop of findNextTradingDay; the result also carries the number of
\* attempts the loop used (a local of the code) for the statements about it
RECURSIVE findNextTradingDayLoop(_, _, _)
findNextTradingDayLoop(market, candidate, attempts) ==
    IF attempts < maxAttempts
    THEN LET candidateDay == getDayInMarket(market, candidate) IN
         IF candidateDay = 0 \/ candidateDay = 6
         THEN findNextTradingDayLoop(
                  market, SetDatePlus(candidate, weekendSkip(candidateDay)), attempts + 1)
         ELSE IF getHolidayForDate(market, candidate) = TypeError
         THEN TypeError
         ELSE IF isClosedHoliday(getHolidayForDate(market, candidate))
         THEN findNextTradingDayLoop(market, SetDatePlus(candidate, 1), attempts + 1)
         ELSE [nextOpen |-> candidate, attempts |-> attempts]
    ELSE [nextOpen |-> candidate, attempts |-> attempts]

findNextTradingDay(market, startDate) == findNextTradingDayLoop(market, startDate, 0)

\* variant of holidayCloseTime: the holiday's close time is not applied
holidayCloseTime_Ignored(closeTime, todayHoliday) == closeTime

\* the close time an early-close holiday leaves in force
holidayCloseTime(closeTime, todayHoliday) ==
    IF /\ todayHoliday # Undefined
       /\ todayHoliday.status = "early-close"
       /\ todayHoliday.closeTime # <<>>
    THEN todayHoliday.closeTime
    ELSE closeTime

\* variant of isWeekendDay: Sunday (0) is not tested
isWeekendDay_SaturdayOnly(dayInMarket) == dayInMarket = 6

isWeekendDay(dayInMarket) == dayInMarket = 0 \/ dayInMarket = 6

daysUntilMonday(dayInMarket) == IF dayInMarket = 0 THEN 1 ELSE 2

isBeforeOpen(t, openDate) == t < openDate

isInSession(t, openDate, closeDate) == t >= openDate /\ t < closeDate

hasLunch(market) == market.lunchStart # <<>> /\ market.lunchEnd # <<>>

\* variant of isOnLunchBreak: the first instant of the break is left out
isOnLunchBreak_Exclusive(t, lunchStartDate, lunchEndDate) ==
    t > lunchStartDate /\ t < lunchEndDate

isOnLunchBreak(t, lunchStartDate, lunchEndDate) ==
    t >= lunchStartDate /\ t < lunchEndDate

isBeforeLunch(t, lunchStartDate) == t < lunchStartDate

\* variant of daysToNextCandidate: after Friday's close the search starts on
\* Tuesday
daysToNextCandidate_SkipsMonday(dayInMarket) == IF dayInMarket = 5 THEN 4 ELSE 1

\* variant of daysToNextCandidate: Monday to Thursday start at today
daysToNextCandidate_Today(dayInMarket) == IF dayInMarket = 5 THEN 3 ELSE 0

\* days from today's open to the first candidate after the close
daysToNextCandidate(dayInMarket) == IF dayInMarket = 5 THEN 3 ELSE 1

\* variant of Status: a market on its lunch break is reported open as well
Status_OpenDuringLunch(branch, isOpen, isWeekend, isOnLunch, isTodayHoliday, nextEvent, nextEventTime, t, searchStart, attempts) ==
    [ branch |-> branch,
      isOpen |-> isOpen \/ isOnLunch,
      isWeekend |-> isWeekend,
      isOnLunch |-> isOnLunch,
      isTodayHoliday |-> isTodayHoliday,
      timeUntil |-> nextEventTime - t,
      nextEvent |-> nextEvent,
      nextEventTime |-> nextEventTime,
      searchStart |-> searchStart,
      attempts |-> attempts ]

\* a MarketStatus.  branch names the return statement that produced it (the
\* session state of the design); searchStart and attempts record the call of
\* findNextTradingDay, when the branch made one (attempts = -1 otherwise)
Status(branch, isOpen, isWeekend, isOnLunch, isTodayHoliday, nextEvent, nextEventTime, t, searchStart, attempts) ==
    [ branch |-> branch,
      isOpen |-> isOpen,
      isWeekend |-> isWeekend,
      isOnLunch |-> isOnLunch,
      isTodayHoliday |-> isTodayHoliday,
      timeUntil |-> nextEventTime - t,
      nextEvent |-> nextEvent,
      nextEventTime |-> nextEventTime,
      searchStart |-> searchStart,
      attempts |-> attempts ]

SearchStatus(branch, isWeekend, isTodayHoliday, market, startDate, t) ==
    LET found == findNextTradingDay(market, startDate) IN
    IF found = TypeError THEN TypeError
    ELSE Status(branch, FALSE, isWeekend, FALSE, isTodayHoliday, "opens",
                found.nextOpen, t, startDate, found.attempts)

\* what every read of timeService.getNow() in one call returns when the
\* clock does not move during the call
SameInstant(t) == [now |-> t, open |-> t, close |-> t, lunchStart |-> t, lunchEnd |-> t]

\* getMarketStatus(market, overrides) when its own read of
\* timeService.getNow() returns reads.now and the reads inside the
\* parseTimeInTimezone calls for the open, close and lunch times return
\* reads.open, reads.close, reads.lunchStart and reads.lunchEnd
getMarketStatusReads(market, overrides, reads) ==
    LET t == reads.now
        openTime == effectiveOpenTime(market, overrides)
        todayHoliday == getHolidayForDate(market, t)
        closeTime == holidayCloseTime(effectiveCloseTime(market, overrides), todayHoliday)
        openDate == parseTimeInTimezone(openTime, market.timezone, reads.open)
        closeDate == parseTimeInTimezone(closeTime, market.timezone, reads.close)
        dayInMarket == getDayInMarket(market, t)
        lunchStartDate ==
            parseTimeInTimezone(market.lunchStart, market.timezone, reads.lunchStart)
        lunchEndDate ==
            parseTimeInTimezone(market.lunchEnd, market.timezone, reads.lunchEnd)
    IN  IF todayHoliday = TypeError
        THEN TypeError
        ELSE IF isClosedHoliday(todayHoliday)
        THEN SearchStatus("HOLIDAY_CLOSED", FALSE, TRUE, market,
                          SetDatePlus(openDate, 1), t)
        ELSE IF isWeekendDay(dayInMarket)
        THEN SearchStatus("WEEKEND_CLOSED", TRUE, FALSE, market,
                          SetDatePlus(openDate, daysUntilMonday(dayInMarket)), t)
        ELSE IF isBeforeOpen(t, openDate)
        THEN Status("BEFORE_OPEN", FALSE, FALSE, FALSE, FALSE, "opens",
                    openDate, t, openDate, -1)
        ELSE IF isInSession(t, openDate, closeDate)
        THEN IF hasLunch(market) /\ isOnLunchBreak(t, lunchStartDate, lunchEndDate)
             THEN Status("ON_LUNCH", FALSE, FALSE, TRUE, FALSE, "reopens",
                         lunchEndDate, t, openDate, -1)
             ELSE IF hasLunch(market) /\ isBeforeLunch(t, lunchStartDate)
             THEN Status("OPEN", TRUE, FALSE, FALSE, FALSE, "lunch-starts",
                         lunchStartDate, t, openDate, -1)
             ELSE Status("OPEN", TRUE, FALSE, FALSE, FALSE, "closes",
                         closeDate, t, openDate, -1)
        ELSE SearchStatus("AFTER_CLOSE", FALSE, FALSE, market,
                          SetDatePlus(openDate, daysToNextCandidate(dayInMarket)), t)

\* getMarketStatus(market, overrides) when timeService.getNow() is t
getMarketStatus(market, overrides, t) ==
    getMarketStatusReads(market, overrides, SameInstant(t))

(***************************************************************************)
(* The configuration the engine runs on: markets (markets.ts), the holiday *)
(* table (holidays.json as loaded into holidaysCache) and the stored user  *)
(* overrides (storage.ts).                                                 *)
(***************************************************************************)
NoTime == <<>>

Nyse ==
    [ id |-> "nyse", timezone |-> NY, openTime |-> <<9, 30>>, closeTime |-> <<16, 0>>,
      lunchStart |-> NoTime, lunchEnd |-> NoTime ]

Tse ==
    [ id |-> "tse", timezone |-> TOKYO, openTime |-> <<9, 0>>, closeTime |-> <<15, 0>>,
      lunchStart |-> <<11, 30>>, lunchEnd |-> <<12, 30>> ]

markets == {Nyse, Tse}

\* no holidays.json entry for the year
NoHolidays == <<>>

\* a closed Thursday before an early-close Friday, an early-close entry on a
\* Saturday, a closed Monday after the weekend; tse shares nyse's table
ShortWeek ==
    2026 :> [ nyse |-> HolidayList(<< Holiday(3, "closed", NoTime),
                                      Holiday(4, "early-close", <<13, 0>>),
                                      Holiday(5, "early-close", <<13, 0>>),
                                      Holiday(7, "closed", NoTime) >>),
              tse |-> Alias("nyse") ]

\* two closed days in a row, a closed Friday and a closed Sunday, an
\* early-close entry without a close time; tse closes early on Thursday
Scattered ==
    2026 :> [ nyse |-> HolidayList(<< Holiday(1, "closed", NoTime),
                                      Holiday(2, "closed", NoTime),
                                      Holiday(4, "closed", NoTime),
                                      Holiday(6, "closed", NoTime),
                                      Holiday(7, "early-close", NoTime) >>),
              tse |-> HolidayList(<< Holiday(3, "early-close", <<14, 0>>),
                                     Holiday(4, "closed", NoTime) >>) ]

\* a closure of three weeks and more, from the Monday after the modelled
\* week: 21 days for nyse, 23 for tse
LongClosure ==
    2026 :> [ nyse |-> HolidayList([i \in 1..21 |-> Holiday(i + 6, "closed", NoTime)]),
              tse |-> HolidayList([i \in 1..23 |-> Holiday(i + 6, "closed", NoTime)]) ]

HolidayTables == {NoHolidays, ShortWeek, Scattered, LongClosure}

TimeOverride(openTime, closeTime) == [openTime |-> openTime, closeTime |-> closeTime]

NoOverrides == <<>>

LateOpen ==
    [ nyse |-> TimeOverride(<<10, 0>>, NoTime), tse |-> TimeOverride(NoTime, <<14, 30>>) ]

EarlyClose ==
    [ nyse |-> TimeOverride(NoTime, <<15, 0>>) ]

OverrideTables == {NoOverrides, LateOpen, EarlyClose}

\* timeOverrides[market.id] || {}
overridesFor(market) ==
    LET o == Lookup(timeOverrides, market.id)
    IN  IF o = Undefined THEN TimeOverride(NoTime, NoTime) ELSE o

(***************************************************************************)
(* main.ts: the render tick.  The real clock is sampled on every half hour *)
(* and one minute before it, which covers both sides of every session      *)
(* boundary of the configuration above.                                    *)
(***************************************************************************)
NextSample(t) == IF t % 30 = 0 THEN t + 29 ELSE t + 1

LastInstant == (MaxDay + 1) * MinutesPerDay - 1

\* renderClocks: getMarketStatus of every selected market
renderClocks(t) ==
    [id \in {m.id : m \in markets} |->
        LET market == CHOOSE m \in markets : m.id = id
        IN  getMarketStatus(market, overridesFor(market), t)]

\* timeService as constructed: no simulation
NoCall == [op |-> "init", at |-> 0, arg |-> Null, prev |-> <<>>, pre |-> <<>>, before |-> 0, shown |-> 0]

ClockInit ==
    /\ realNow = 0
    /\ clockOffset = 0
    /\ isPaused = FALSE
    /\ frozenTime = 0
    /\ timezoneOverride = Null
    /\ lastCall = NoCall

\* no converter has been applied on its own
NoProbe == [fn |-> "none"]

Init ==
    /\ week \in {"spring", "autumn"}
    /\ viewerTz \in {NY, TOKYO}
    /\ holidaysCache \in HolidayTables
    /\ timeOverrides \in OverrideTables
    /\ ClockInit
    /\ probe = NoProbe
    /\ now = getNow
    /\ statuses = renderClocks(now)

\* the setInterval callback of init(): the clock has moved on, render again
Tick ==
    /\ NextSample(realNow) <= LastInstant
    /\ realNow' = NextSample(realNow)
    /\ UNCHANGED <<clockVars, lastCall, probe>>
    /\ now' = getNow'
    /\ statuses' = renderClocks(now')
    /\ UNCHANGED <<week, viewerTz, holidaysCache, timeOverrides>>

Next == Tick

Spec == Init /\ [][Next]_vars

(***************************************************************************)
(* The converters on their own.  A run either follows one timezone through *)
(* the modelled days, converting the timezone-local date and HH:MM of each *)
(* sampled instant back to an instant, or walks normalizeOffset through    *)
(* the differences of two minute-of-day values.                            *)
(***************************************************************************)
\* the zones the converters are applied to
ConverterZones == {NY, TOKYO} \cup {EtcZones[i] : i \in DOMAIN EtcZones}

\* 'HH:MM' of the wall-clock minute w of a day
HHMM(w) == <<w \div 60, w % 60>>

\* the timezone-local date and time of instant t, converted back
RoundTrip(timezone, t) ==
    LET local == TzLocal(timezone, t)
        timeStr == HHMM(local % MinutesPerDay)
    IN  [ fn |-> "parseTimeInTimezone",
          timezone |-> timezone,
          t |-> t,
          timeStr |-> timeStr,
          result |-> parseTimeInTimezone(timeStr, timezone, t),
          diffMins |-> normalizeOffset(rawDiffMins(local, timezone)),
          isoResult |-> getDateFromIsoInTz(local, timezone) ]

Normalized(raw) == [fn |-> "normalizeOffset", raw |-> raw, result |-> normalizeOffset(raw)]

\* the largest difference of two minute-of-day values
MaxRawDiff == MinutesPerDay - 1

ConverterInit ==
    /\ week \in {"spring", "autumn"}
    /\ viewerTz = NY
    /\ holidaysCache = NoHolidays
    /\ timeOverrides = NoOverrides
    /\ ClockInit
    /\ now = getNow
    /\ statuses = renderClocks(now)
    /\ \/ \E timezone \in ConverterZones : probe = RoundTrip(timezone, getNow)
       \/ week = "spring" /\ probe = Normalized(-MaxRawDiff)

\* the clock has moved on: convert again
Convert ==
    /\ probe.fn = "parseTimeInTimezone"
    /\ NextSample(realNow) <= LastInstant
    /\ realNow' = NextSample(realNow)
    /\ UNCHANGED <<engineVars, clockVars, lastCall>>
    /\ probe' = RoundTrip(probe.timezone, getNow')

Normalize ==
    /\ probe.fn = "normalizeOffset"
    /\ probe.raw < MaxRawDiff
    /\ probe' = Normalized(probe.raw + 1)
    /\ UNCHANGED <<engineVars, realNow, clockVars, lastCall>>

ConverterNext == Convert \/ Normalize

ConverterSpec == ConverterInit /\ [][ConverterNext]_vars

(***************************************************************************)
(* holidays.ts on tables with alias entries of every shape: the lookup on  *)
(* its own, for market ids and years in and out of the table, next to the  *)
(* render that uses it.                                                    *)
(***************************************************************************)
\* one ordinary list, for a market other than the one looked up
OneList ==
    2026 :> [ nyse |-> HolidayList(<< Holiday(1, "closed", NoTime),
                                      Holiday(3, "early-close", <<13, 0>>) >>) ]

\* aliases that name a market with no entry
DanglingAlias ==
    2026 :> [ nyse |-> Alias("lse"), tse |-> Alias("lse") ]

\* an alias whose target is an alias again
AliasChain ==
    2026 :> [ tse |-> Alias("nasdaq"),
              nasdaq |-> Alias("nyse"),
              nyse |-> HolidayList(<< Holiday(1, "closed", NoTime) >>) ]

\* two aliases that name each other
AliasCycle ==
    2026 :> [ nyse |-> Alias("tse"), tse |-> Alias("nyse") ]

AliasTables == {NoHolidays, ShortWeek, OneList, DanglingAlias, AliasChain, AliasCycle}

\* the market ids and years the lookup is called with
LookupIds == {"nyse", "tse", "nasdaq", "lse"}

LookupYears == {2026, 2027}

Looked(marketId, year) ==
    [ fn |-> "getMarketHolidays", marketId |-> marketId, year |-> year,
      result |-> getMarketHolidays(marketId, year) ]

HolidayInit ==
    /\ week = "spring"
    /\ viewerTz = NY
    /\ holidaysCache \in AliasTables
    /\ timeOverrides = NoOverrides
    /\ ClockInit
    /\ now = getNow
    /\ statuses = renderClocks(now)
    /\ \E marketId \in LookupIds, year \in LookupYears : probe = Looked(marketId, year)

\* the clock has moved on: render again and look the table entry up again
HolidayTick ==
    /\ NextSample(realNow) <= LastInstant
    /\ realNow' = NextSample(realNow)
    /\ UNCHANGED <<clockVars, lastCall>>
    /\ now' = getNow'
    /\ statuses' = renderClocks(now')
    /\ probe' = Looked(probe.marketId, probe.year)
    /\ UNCHANGED <<week, viewerTz, holidaysCache, timeOverrides>>

HolidayNext == HolidayTick

HolidaySpec == HolidayInit /\ [][HolidayNext]_vars

(***************************************************************************)
(* timezone.ts: formatCountdown.  Its argument is in milliseconds.  The    *)
(* string it returns is held as its parts: whether it starts with 'Nd ',   *)
(* the number N, and the two characters (digits) of each of the three      *)
(* fields between the colons.                                              *)
(***************************************************************************)
\* String(n).padStart(2, '0') for 0 <= n <= 99, as its two digits
pad(n) == <<n \div 10, n % 10>>

Countdown(withDays, days, hours, minutes, seconds) ==
    [withDays |-> withDays, days |-> days, hh |-> pad(hours), mm |-> pad(minutes), ss |-> pad(seconds)]

\* variant of formatCountdown: the days part appears from two days on
formatCountdown_DaysFromTwo(ms) ==
    IF ms < 0 THEN Countdown(FALSE, 0, 0, 0, 0)
    ELSE LET seconds == (ms \div 1000) % 60
             minutes == (ms \div (1000 * 60)) % 60
             hours == (ms \div (1000 * 60 * 60)) % 24
             days == ms \div (1000 * 60 * 60 * 24)
         IN  IF days > 1
             THEN Countdown(TRUE, days, hours, minutes, seconds)
             ELSE Countdown(FALSE, 0, hours, minutes, seconds)

formatCountdown(ms) ==
    IF ms < 0 THEN Countdown(FALSE, 0, 0, 0, 0)
    ELSE LET seconds == (ms \div 1000) % 60
             minutes == (ms \div (1000 * 60)) % 60
             hours == (ms \div (1000 * 60 * 60)) % 24
             days == ms \div (1000 * 60 * 60 * 24)
         IN  IF days > 0
             THEN Countdown(TRUE, days, hours, minutes, seconds)
             ELSE Countdown(FALSE, 0, hours, minutes, seconds)

\* the countdown is formatted for durations of up to this many whole days
MaxCountdownDays == 2

\* the durations formatted: around every change of a second, minute, hour
\* and day, and below zero
CountdownInputs ==
    { d * 86400000 + h * 3600000 + m * 60000 + sec * 1000 + r :
        d \in 0..MaxCountdownDays, h \in {0, 1, 23}, m \in {0, 1, 59},
        sec \in {0, 1, 59}, r \in {0, 1, 999} }
    \cup {-1, -1000, -60000, -86400000}

Formatted(ms) == [fn |-> "formatCountdown", ms |-> ms, result |-> formatCountdown(ms)]

\* the largest element of a non-empty set of integers
Largest(S) == CHOOSE x \in S : \A y \in S : y <= x

CountdownInit ==
    /\ week = "spring"
    /\ viewerTz = NY
    /\ holidaysCache = NoHolidays
    /\ timeOverrides = NoOverrides
    /\ ClockInit
    /\ now = getNow
    /\ statuses = renderClocks(now)
    /\ probe = Formatted(Largest(CountdownInputs))

\* the countdown has run down to the next smaller duration: format it
Countdown_Tick ==
    /\ probe.fn = "formatCountdown"
    /\ {ms \in CountdownInputs : ms < probe.ms} # {}
    /\ probe' = Formatted(Largest({ms \in CountdownInputs : ms < probe.ms}))
    /\ UNCHANGED <<engineVars, realNow, clockVars, lastCall>>

CountdownNext == Countdown_Tick

CountdownSpec == CountdownInit /\ [][CountdownNext]_vars

(***************************************************************************)
(* The render with the clock running during the call.  getMarketStatus     *)
(* reads timeService.getNow() itself and every parseTimeInTimezone call    *)
(* reads it again; the clock may move on between any two of these reads.   *)
(* The reads are, in the order of the code: now, open, close, lunchStart,  *)
(* lunchEnd.  The clock moves at most once during a call, and only from    *)
(* the last sampled minute of a half hour to the first of the next (a      *)
(* local midnight is such a boundary in every modelled zone).              *)
(***************************************************************************)
ReadOrder == <<"now", "open", "close", "lunchStart", "lunchEnd">>

\* the reads of a call that starts at instant t when the clock moves on to
\* t + 1 just before read number k (k = 0: it does not move)
ReadsWithTick(t, k) ==
    [name \in {ReadOrder[i] : i \in DOMAIN ReadOrder} |->
        LET i == CHOOSE j \in DOMAIN ReadOrder : ReadOrder[j] = name
        IN  IF k > 0 /\ i >= k THEN t + 1 ELSE t]

Rendered(reads) == [fn |-> "getMarketStatus", reads |-> reads]

\* renderClocks when the reads of every getMarketStatus call are `reads`
renderClocksReads(reads) ==
    [id \in {m.id : m \in markets} |->
        LET market == CHOOSE m \in markets : m.id = id
        IN  getMarketStatusReads(market, overridesFor(market), reads)]

RaceInit ==
    /\ week \in {"spring", "autumn"}
    /\ viewerTz = NY
    /\ holidaysCache \in {NoHolidays, ShortWeek}
    /\ timeOverrides = NoOverrides
    /\ ClockInit
    /\ now = getNow
    /\ statuses = renderClocks(now)
    /\ probe = Rendered(SameInstant(now))

\* the setInterval callback, the clock not moving during the call
QuietRender ==
    /\ probe.fn = "getMarketStatus"
    /\ NextSample(realNow) <= LastInstant
    /\ realNow' = NextSample(realNow)
    /\ UNCHANGED <<clockVars, lastCall>>
    /\ now' = getNow'
    /\ statuses' = renderClocks(now')
    /\ probe' = Rendered(SameInstant(now'))
    /\ UNCHANGED <<week, viewerTz, holidaysCache, timeOverrides>>

\* the setInterval callback, the clock moving on just before read number k
RacingRender(k) ==
    /\ probe.fn = "getMarketStatus"
    /\ NextSample(realNow) % 30 = 29
    /\ NextSample(realNow) + 1 <= LastInstant
    /\ realNow' = NextSample(realNow) + 1
    /\ UNCHANGED <<clockVars, lastCall>>
    /\ now' = NextSample(realNow) + clockOffset
    /\ statuses' = renderClocksReads(ReadsWithTick(now', k))
    /\ probe' = Rendered(ReadsWithTick(now', k))
    /\ UNCHANGED <<week, viewerTz, holidaysCache, timeOverrides>>

RaceNext == QuietRender \/ \E k \in 2..Len(ReadOrder) : RacingRender(k)

RaceSpec == RaceInit /\ [][RaceNext]_vars

(***************************************************************************)
(* timeService.ts: the control calls of the simulated clock, made in any   *)
(* order while real time passes.  Each call notes in lastCall its name and *)
(* argument, the real time of the call, the call made before it, the       *)
(* fields it found and what getNow() returned just before and just after.  *)
(***************************************************************************)
\* last value of the real clock in a run of control calls
MaxReal == 4

\* the instants setTime is called with
SetTargets == {0, 2, 3, 90}

\* the values setTimezone is called with
TimezoneArgs == {"local", Null, NY, TOKYO}

\* the four fields of the TimeService object
ClockState ==
    [ clockOffset |-> clockOffset, isPaused |-> isPaused, frozenTime |-> frozenTime,
      timezoneOverride |-> timezoneOverride ]

\* op(arg) is called now: prev is the call before it, pre the fields it finds
Called(op, arg) ==
    lastCall' = [ op |-> op, at |-> realNow, arg |-> arg,
                  prev |-> [op |-> lastCall.op, at |-> lastCall.at],
                  pre |-> ClockState, before |-> getNow, shown |-> getNow' ]

\* Date.now() moves on by one
RealTimePasses ==
    /\ realNow < MaxReal
    /\ realNow' = realNow + 1
    /\ UNCHANGED <<engineVars, clockVars, lastCall, probe>>

\* variant of setTimezone: choosing a zone also drops the simulated offset
setTimezone_DropsOffset(timezone) ==
    /\ timezoneOverride' = IF timezone = "local" THEN Null ELSE timezone
    /\ clockOffset' = 0
    /\ UNCHANGED <<engineVars, realNow, isPaused, frozenTime, probe>>
    /\ Called("setTimezone", timezone)

setTimezone(timezone) ==
    /\ timezoneOverride' = IF timezone = "local" THEN Null ELSE timezone
    /\ UNCHANGED <<engineVars, realNow, clockOffset, isPaused, frozenTime, probe>>
    /\ Called("setTimezone", timezone)

\* variant of setTime: the frozen instant is left where it was
setTime_KeepsFrozen(date) ==
    /\ clockOffset' = date - realNow
    /\ UNCHANGED <<engineVars, realNow, isPaused, frozenTime, timezoneOverride, probe>>
    /\ Called("setTime", date)

setTime(date) ==
    /\ clockOffset' = date - realNow
    /\ frozenTime' = IF isPaused THEN date ELSE frozenTime
    /\ UNCHANGED <<engineVars, realNow, isPaused, timezoneOverride, probe>>
    /\ Called("setTime", date)

\* variant of reset: the pause is left in force
reset_KeepsPause ==
    /\ clockOffset' = 0
    /\ timezoneOverride' = Null
    /\ UNCHANGED <<engineVars, realNow, isPaused, frozenTime, probe>>
    /\ Called("reset", Null)

reset ==
    /\ clockOffset' = 0
    /\ isPaused' = FALSE
    /\ timezoneOverride' = Null
    /\ UNCHANGED <<engineVars, realNow, frozenTime, probe>>
    /\ Called("reset", Null)

\* variant of freeze: the real clock is captured, on every call
freeze_CapturesRealClock ==
    /\ frozenTime' = realNow
    /\ isPaused' = TRUE
    /\ UNCHANGED <<engineVars, realNow, clockOffset, timezoneOverride, probe>>
    /\ Called("freeze", Null)

freeze ==
    /\ IF ~isPaused
       THEN frozenTime' = getNow /\ isPaused' = TRUE
       ELSE UNCHANGED <<frozenTime, isPaused>>
    /\ UNCHANGED <<engineVars, realNow, clockOffset, timezoneOverride, probe>>
    /\ Called("freeze", Null)

\* variant of unfreeze: the offset in force before the pause is kept
unfreeze_KeepsOffset ==
    /\ isPaused' = FALSE
    /\ UNCHANGED <<engineVars, realNow, clockOffset, frozenTime, timezoneOverride, probe>>
    /\ Called("unfreeze", Null)

unfreeze ==
    /\ IF isPaused
       THEN clockOffset' = frozenTime - realNow /\ isPaused' = FALSE
       ELSE UNCHANGED <<clockOffset, isPaused>>
    /\ UNCHANGED <<engineVars, realNow, frozenTime, timezoneOverride, probe>>
    /\ Called("unfreeze", Null)

ClockSpecInit ==
    /\ week = "spring"
    /\ viewerTz = NY
    /\ holidaysCache = NoHolidays
    /\ timeOverrides = NoOverrides
    /\ ClockInit
    /\ probe = NoProbe
    /\ now = getNow
    /\ statuses = renderClocks(now)

ClockNext ==
    \/ RealTimePasses
    \/ \E timezone \in TimezoneArgs : setTimezone(timezone)
    \/ \E date \in SetTargets : setTime(date)
    \/ reset
    \/ freeze
    \/ unfreeze

ClockSpec == ClockSpecInit /\ [][ClockNext]_vars

(***************************************************************************)
(* debug.ts: the time-travel panel.  'Set' and the jump buttons move the   *)
(* simulated clock; a Date is read and written in the host zone viewerTz.  *)
(***************************************************************************)
\* Date.getDay() of a host-local date: 0 = Sunday .. 6 = Saturday
getDay(date) == (date + 1) % 7

\* Date.getDate() of a host-local date of the modelled weeks (March 2026;
\* October to December 2026)
getDate(date) ==
    IF week = "spring" THEN date + 2
    ELSE IF date <= 5 THEN date + 26
    ELSE IF date <= 35 THEN date - 5
    ELSE date - 35

\* a || b on numbers (0 is falsy)
OrElseNumber(a, b) == IF a # 0 THEN a ELSE b

\* the host-local date target.setDate(dayOfMonth) moves a Date on `date` to
setDate(date, dayOfMonth) == date + (dayOfMonth - getDate(date))

\* target.getDate() + (1 + 7 - target.getDay()) % 7 || 7
nextMondayDayOfMonth(date) ==
    OrElseNumber(getDate(date) + ((1 + 7 - getDay(date)) % 7), 7)

\* the target instant of a jump made when getNow() is t
jumpTarget(jumpType, t) ==
    LET date == TzLocal(viewerTz, t) \div MinutesPerDay IN
    IF jumpType = "next-monday"
    THEN LocalToUTC(setDate(date, nextMondayDayOfMonth(date)) * MinutesPerDay + 9 * 60 + 30)
    ELSE IF jumpType = "dst-us" THEN LocalToUTC(6 * MinutesPerDay + 1 * 60 + 59)
    ELSE IF jumpType = "xmas" THEN LocalToUTC(60 * MinutesPerDay + 10 * 60)
    ELSE t

\* the data-jump values of the shortcut buttons, and none
JumpTypes == {"next-monday", "dst-us", "xmas", Null}

\* a fixed date is jumped to in the modelled week whose zone rule covers it
\* (2026-03-08 is day 6 of the spring week, 2026-12-25 day 60 of the autumn
\* week)
InModelledYearPart(jumpType) ==
    /\ jumpType = "dst-us" => week = "spring"
    /\ jumpType = "xmas" => week = "autumn"

\* the instants the 'Set' button is pressed with: 00:00 and 14:00 UTC of
\* every day of the modelled week
JumpDates == {d * MinutesPerDay + h * 60 : d \in 0..MaxDay, h \in {0, 14}}

\* the 'Set' button: setTime, freeze, unfreeze
debugSet(date) ==
    /\ clockOffset' = date - realNow
    /\ frozenTime' = date
    /\ isPaused' = FALSE
    /\ UNCHANGED <<engineVars, realNow, timezoneOverride, probe>>
    /\ Called("debugSet", date)

\* a shortcut button: the target is computed, then timeService.setTime
handleJump(jumpType) ==
    /\ InModelledYearPart(jumpType)
    /\ clockOffset' = jumpTarget(jumpType, getNow) - realNow
    /\ frozenTime' = IF isPaused THEN jumpTarget(jumpType, getNow) ELSE frozenTime
    /\ UNCHANGED <<engineVars, realNow, isPaused, timezoneOverride, probe>>
    /\ Called("handleJump", jumpType)

JumpInit ==
    /\ week \in {"spring", "autumn"}
    /\ viewerTz \in {NY, TOKYO}
    /\ holidaysCache = NoHolidays
    /\ timeOverrides = NoOverrides
    /\ ClockInit
    /\ probe = NoProbe
    /\ now = getNow
    /\ statuses = renderClocks(now)

JumpNext ==
    \/ RealTimePasses
    \/ \E date \in JumpDates : debugSet(date)
    \/ \E jumpType \in JumpTypes : handleJump(jumpType)

JumpSpec == JumpInit /\ [][JumpNext]_vars

(***************************************************************************)
(* editor.ts and storage.ts: the market editor page.  The stored overrides *)
(* are timeOverrides (localStorage); the page state, held in probe, is the *)
(* value of the open and close input of every row and pendingChanges.      *)
(***************************************************************************)
\* the times typed into an open and into a close input: the default of each
\* market and one other time
TimeInputs(field) ==
    IF field = "open" THEN {<<9, 0>>, <<9, 30>>, <<10, 0>>} ELSE {<<15, 0>>, <<16, 0>>}

\* originalMarkets.get(marketId)
originalMarket(marketId) == CHOOSE m \in markets : m.id = marketId

\* obj[key] = value and delete obj[key] on an object held as a function
Assigned(obj, key, value) ==
    [k \in DOMAIN obj \cup {key} |-> IF k = key THEN value ELSE obj[k]]

Deleted(obj, key) == [k \in DOMAIN obj \ {key} |-> obj[k]]

\* the input values renderMarketRow writes for a market
renderMarketRow(market, overrides) ==
    LET override == Lookup(overrides, market.id) IN
    [ open  |-> IF override = Undefined THEN market.openTime
                ELSE OrElse(override.openTime, market.openTime),
      close |-> IF override = Undefined THEN market.closeTime
                ELSE OrElse(override.closeTime, market.closeTime) ]

renderTable(overrides) ==
    [id \in {m.id : m \in markets} |-> renderMarketRow(originalMarket(id), overrides)]

Editor(op, inputs, pendingChanges) ==
    [fn |-> "editor", op |-> op, inputs |-> inputs, pendingChanges |-> pendingChanges]

\* the argument null of saveTimeOverride
NullOverride == [kind |-> "null"]

saveTimeOverride(overrides, marketId, override) ==
    IF override = NullOverride THEN Deleted(overrides, marketId)
    ELSE Assigned(overrides, marketId, override)

clearTimeOverride(overrides, marketId) == saveTimeOverride(overrides, marketId, NullOverride)

EditorInit ==
    /\ week = "spring"
    /\ viewerTz = NY
    /\ holidaysCache = NoHolidays
    /\ timeOverrides \in OverrideTables
    /\ ClockInit
    /\ now = getNow
    /\ statuses = renderClocks(now)
    /\ probe = Editor("init", renderTable(timeOverrides), <<>>)

\* the 'input' event of a time input
handleTimeChange(marketId, field, value) ==
    /\ probe.fn = "editor"
    /\ LET original == IF field = "open" THEN originalMarket(marketId).openTime
                        ELSE originalMarket(marketId).closeTime
           found == Lookup(probe.pendingChanges, marketId)
           pending == IF found = Undefined THEN TimeOverride(NoTime, NoTime) ELSE found
           changed == IF value # original THEN value ELSE NoTime
           updated == IF field = "open"
                      THEN TimeOverride(changed, pending.closeTime)
                      ELSE TimeOverride(pending.openTime, changed)
       IN  probe' = Editor("handleTimeChange",
                           [probe.inputs EXCEPT ![marketId][field] = value],
                           Assigned(probe.pendingChanges, marketId, updated))
    /\ UNCHANGED <<engineVars, realNow, clockVars, lastCall>>

\* the Reset button of a row
resetMarket(marketId) ==
    /\ probe.fn = "editor"
    /\ timeOverrides' = clearTimeOverride(timeOverrides, marketId)
    /\ probe' = Editor("resetMarket",
                        [probe.inputs EXCEPT ![marketId] =
                            [ open  |-> originalMarket(marketId).openTime,
                              close |-> originalMarket(marketId).closeTime ]],
                        Deleted(probe.pendingChanges, marketId))
    /\ UNCHANGED <<week, viewerTz, holidaysCache, now, statuses, realNow, clockVars, lastCall>>

\* the rows 'Save all' stores an override for, and the override it stores
openChanged(marketId) == probe.inputs[marketId].open # originalMarket(marketId).openTime

closeChanged(marketId) == probe.inputs[marketId].close # originalMarket(marketId).closeTime

rowOverride(marketId) ==
    TimeOverride(IF openChanged(marketId) THEN probe.inputs[marketId].open ELSE NoTime,
                 IF closeChanged(marketId) THEN probe.inputs[marketId].close ELSE NoTime)

RECURSIVE saveRows(_, _)
saveRows(overrides, rows) ==
    IF rows = {} THEN overrides
    ELSE LET marketId == CHOOSE id \in rows : TRUE
             saved == IF openChanged(marketId) \/ closeChanged(marketId)
                      THEN saveTimeOverride(overrides, marketId, rowOverride(marketId))
                      ELSE overrides
         IN  saveRows(saved, rows \ {marketId})

\* the 'Save all' button
saveAllChanges ==
    /\ probe.fn = "editor"
    /\ timeOverrides' = saveRows(timeOverrides, DOMAIN probe.inputs)
    /\ probe' = Editor("saveAllChanges", probe.inputs, <<>>)
    /\ UNCHANGED <<week, viewerTz, holidaysCache, now, statuses, realNow, clockVars, lastCall>>

\* the 'Reset all' button, confirmed
resetAllChanges ==
    /\ probe.fn = "editor"
    /\ timeOverrides' = <<>>
    /\ probe' = Editor("resetAllChanges", renderTable(timeOverrides'), <<>>)
    /\ UNCHANGED <<week, viewerTz, holidaysCache, now, statuses, realNow, clockVars, lastCall>>

\* the page is loaded again: init renders the table from the stored overrides
reloadEditor ==
    /\ probe.fn = "editor"
    /\ probe' = Editor("init", renderTable(timeOverrides), <<>>)
    /\ UNCHANGED <<engineVars, realNow, clockVars, lastCall>>

EditorNext ==
    \/ \E m \in markets, field \in {"open", "close"} :
           \E value \in TimeInputs(field) : handleTimeChange(m.id, field, value)
    \/ \E m \in markets : resetMarket(m.id)
    \/ saveAllChanges
    \/ resetAllChanges
    \/ reloadEditor

EditorSpec == EditorInit /\ [][EditorNext]_vars

(***************************************************************************)
(* editor.ts: the GMT column of the editor.  An offset text 'GMT+5:30' is  *)
(* held as its parts: the sign characters after 'GMT', the hour number     *)
(* (none in plain 'GMT') and the two minute digits (none without ':MM').   *)
(* A number of hours is held in sixtieths, which is exact for every value  *)
(* the parser returns.                                                     *)
(***************************************************************************)
OffsetText(signs, hours, minutes) == [signs |-> signs, hours |-> hours, minutes |-> minutes]

\* `GMT${sign}${number}` and `GMT${sign}${number}:${minutes}`: a negative
\* number prints its own '-'
OffsetTemplate(sign, number, minutes) ==
    OffsetText((IF sign = "+" THEN <<"+">> ELSE <<>>) \o (IF number < 0 THEN <<"-">> ELSE <<>>),
               <<IF number < 0 THEN -number ELSE number>>,
               minutes)

\* timeZoneName: 'shortOffset' of a zone that is `mins` minutes ahead of UTC
shortOffset(mins) ==
    LET a == IF mins < 0 THEN -mins ELSE mins IN
    IF mins = 0 THEN OffsetText(<<>>, <<>>, <<>>)
    ELSE OffsetText(IF mins < 0 THEN <<"-">> ELSE <<"+">>,
                    <<a \div 60>>,
                    IF a % 60 = 0 THEN <<>> ELSE pad(a % 60))

\* the match of /GMT([+-]?)(\d+)?(?::(\d+))?/ evaluated, in sixtieths of an hour
getGMTOffset(text) ==
    LET sign == IF text.signs = <<"-">> THEN -1 ELSE 1
        hours == IF text.hours = <<>> THEN 0 ELSE text.hours[1]
        minutes == IF text.minutes = <<>> THEN 0
                   ELSE 10 * text.minutes[1] + text.minutes[2]
    IN  sign * (hours * 60 + minutes)

\* Math.floor of a number of hours held in sixtieths
FloorHours(offset) == offset \div 60

formatGMTOffset(offset) ==
    LET sign == IF offset >= 0 THEN "+" ELSE ""
        abs == IF offset < 0 THEN -offset ELSE offset
        hours == FloorHours(abs)
        minutes == abs - hours * 60
    IN  IF minutes = 0
        THEN OffsetTemplate(sign, offset \div 60, <<>>)
        ELSE OffsetTemplate(sign, FloorHours(offset), pad(minutes))

\* the zone offsets of the rows, in minutes: -12:00 to +14:00 in quarter hours
RowOffsets == {q * 15 : q \in -48..56}

\* a row not yet rendered, and its rendered GMT cell
RowZone(mins) == [fn |-> "renderMarketRow", zone |-> mins, rendered |-> FALSE]

GmtCell(mins) ==
    [ fn |-> "renderMarketRow", zone |-> mins, rendered |-> TRUE,
      text |-> shortOffset(mins),
      offset |-> getGMTOffset(shortOffset(mins)),
      gmtOffset |-> formatGMTOffset(getGMTOffset(shortOffset(mins))) ]

GmtInit ==
    /\ week = "spring"
    /\ viewerTz = NY
    /\ holidaysCache = NoHolidays
    /\ timeOverrides = NoOverrides
    /\ ClockInit
    /\ now = getNow
    /\ statuses = renderClocks(now)
    /\ probe \in {RowZone(mins) : mins \in RowOffsets}

\* renderMarketRow writes the GMT cell of the row
renderGmtCell ==
    /\ probe.fn = "renderMarketRow"
    /\ ~probe.rendered
    /\ probe' = GmtCell(probe.zone)
    /\ UNCHANGED <<engineVars, realNow, clockVars, lastCall>>

GmtNext == renderGmtCell

GmtSpec == GmtInit /\ [][GmtNext]_vars

(***************************************************************************)
(* What the statements below are measured against: the exchange-local      *)
(* calendar and the true instant of a wall-clock time, read off the zone   *)
(* rules directly (not through parseTimeInTimezone or Date.setDate).       *)
(***************************************************************************)
\* how far ahead of a date the first trading day is looked for
HorizonDays == 30

MinuteOfDay(hm) == hm[1] * 60 + hm[2]

\* exchange-local date of the render instant, and a date's day of week
Today(m) == TzLocal(m.timezone, now) \div MinutesPerDay
DateOf(m, t) == TzLocal(m.timezone, t) \div MinutesPerDay
WallMinuteOf(m, t) == TzLocal(m.timezone, t) % MinutesPerDay
Weekday(date) == (date + 1) % 7
IsWeekday(date) == Weekday(date) \in 1..5

\* the instant at which the clocks of m's timezone show hm on `date`
WallInstant(m, date, hm) ==
    LET l == date * MinutesPerDay + MinuteOfDay(hm)
        r == TzRule(m.timezone)
    IN  CHOOSE t \in {l - r.before, l - r.after} : TzLocal(m.timezone, t) = l

\* the holiday entries that apply to m on `date`
EntriesOn(m, date) ==
    LET table == getMarketHolidays(m.id, YearOfDate(date)).entries
    IN  {table[i] : i \in {j \in DOMAIN table : table[j].date = date}}

ClosedOn(m, date) == \E h \in EntriesOn(m, date) : h.status = "closed"
NoEntryOn(m, date) == EntriesOn(m, date) = {}

IsTradingDay(m, date) == IsWeekday(date) /\ ~ClosedOn(m, date)

\* the earliest trading day on or after `date`
FirstTradingDay(m, date) ==
    CHOOSE x \in date..(date + HorizonDays) :
        /\ IsTradingDay(m, x)
        /\ \A y \in date..(x - 1) : ~IsTradingDay(m, y)

\* the effective session times of m: the stored override when set
OpenTimeOf(m) ==
    IF overridesFor(m).openTime = NoTime THEN m.openTime ELSE overridesFor(m).openTime
CloseTimeOf(m) ==
    IF overridesFor(m).closeTime = NoTime THEN m.closeTime ELSE overridesFor(m).closeTime

OpenInstant(m, date) == WallInstant(m, date, OpenTimeOf(m))
CloseInstant(m, date) == WallInstant(m, date, CloseTimeOf(m))

\* the status of m at the last render
StatusOf(m) == statuses[m.id]

UsedSearch(s) == s.attempts >= 0

(***************************************************************************)
(* C1.  First match wins: on an exchange-local date with a 'closed'        *)
(* holiday entry the status is the holiday-closed one (isTodayHoliday,     *)
(* not open, not weekend, next event 'opens') whatever the weekday and the *)
(* time of day; otherwise on a Saturday or Sunday it is the weekend one    *)
(* (isWeekend, not open, next event 'opens') whatever the time of day and  *)
(* whatever early-close entry the date has.                                *)
(***************************************************************************)
C1_HolidayBeforeWeekend ==
    \A m \in markets :
        LET s == StatusOf(m) IN
        /\ ClosedOn(m, Today(m)) =>
               /\ s.isTodayHoliday
               /\ ~s.isOpen
               /\ ~s.isWeekend
               /\ s.nextEvent = "opens"
        /\ (~ClosedOn(m, Today(m)) /\ ~IsWeekday(Today(m))) =>
               /\ s.isWeekend
               /\ ~s.isOpen
               /\ s.nextEvent = "opens"

\* a closed holiday that falls on a Sunday is reported as a holiday
C1_Witness ==
    \E m \in markets :
        /\ ClosedOn(m, Today(m))
        /\ Weekday(Today(m)) = 0
        /\ StatusOf(m).isTodayHoliday
        /\ ~StatusOf(m).isWeekend

(***************************************************************************)
(* C2.  On an exchange-local weekday without a holiday entry, for a market *)
(* without a lunch break, with the effective open and close times:         *)
(* before the open instant the market is closed and 'opens' at today's     *)
(* open instant; from the open instant to the close instant it is open and *)
(* 'closes' at today's close instant; from the close instant on it is      *)
(* closed and 'opens' at the open instant of a later date.                 *)
(***************************************************************************)
C2_ThreeCases ==
    \A m \in markets :
        LET s == StatusOf(m)
            today == Today(m)
            o == OpenInstant(m, today)
            c == CloseInstant(m, today)
        IN  (~hasLunch(m) /\ IsWeekday(today) /\ NoEntryOn(m, today)) =>
                /\ now < o =>
                       ~s.isOpen /\ s.nextEvent = "opens" /\ s.nextEventTime = o
                /\ (o <= now /\ now < c) =>
                       s.isOpen /\ s.nextEvent = "closes" /\ s.nextEventTime = c
                /\ now >= c =>
                       /\ ~s.isOpen
                       /\ s.nextEvent = "opens"
                       /\ \E d \in (today + 1)..(today + HorizonDays) :
                              s.nextEventTime = OpenInstant(m, d)

(***************************************************************************)
(* C3.  A market with a lunch break is on lunch (isOnLunch, not open, next *)
(* event 'reopens' at the lunch-end instant) at every instant of           *)
(* [lunchStart, lunchEnd) exchange-local on a weekday without a holiday    *)
(* entry; it is open with next event 'lunch-starts' at the instant just    *)
(* before lunchStart and open with next event 'closes' at lunchEnd.        *)
(***************************************************************************)
C3_LunchWindow ==
    \A m \in markets :
        LET s == StatusOf(m)
            today == Today(m)
        IN  (hasLunch(m) /\ IsWeekday(today) /\ NoEntryOn(m, today)) =>
                LET ls == WallInstant(m, today, m.lunchStart)
                    le == WallInstant(m, today, m.lunchEnd)
                IN  /\ (ls <= now /\ now < le) =>
                           /\ s.isOnLunch
                           /\ ~s.isOpen
                           /\ s.nextEvent = "reopens"
                           /\ s.nextEventTime = le
                    /\ now = ls - 1 =>
                           /\ s.isOpen
                           /\ ~s.isOnLunch
                           /\ s.nextEvent = "lunch-starts"
                           /\ s.nextEventTime = ls
                    /\ now = le =>
                           /\ s.isOpen
                           /\ ~s.isOnLunch
                           /\ s.nextEvent = "closes"

\* the first instant of the lunch break on an ordinary weekday
C3_Witness ==
    \E m \in markets :
        /\ hasLunch(m)
        /\ IsWeekday(Today(m))
        /\ NoEntryOn(m, Today(m))
        /\ now = WallInstant(m, Today(m), m.lunchStart)
        /\ StatusOf(m).isOnLunch

(***************************************************************************)
(* C4.  On an early-close holiday that carries a close time, that time is  *)
(* the close time of the whole classification, ahead of the market default *)
(* and of a stored closeTime override: an open market 'closes' at the      *)
(* holiday close instant, and from that instant on the market is closed    *)
(* with next event 'opens'.                                                *)
(***************************************************************************)
EarlyCloseOn(m, date) ==
    {h \in EntriesOn(m, date) : h.status = "early-close" /\ h.closeTime # NoTime}

C4_EarlyCloseWins ==
    \A m \in markets :
        \A h \in EarlyCloseOn(m, Today(m)) :
            LET s == StatusOf(m)
                hc == WallInstant(m, Today(m), h.closeTime)
                o == OpenInstant(m, Today(m))
            IN  /\ s.nextEvent = "closes" => s.nextEventTime = hc
                /\ (IsWeekday(Today(m)) /\ ~hasLunch(m) /\ o <= now /\ now < hc) =>
                       s.isOpen /\ s.nextEvent = "closes"
                /\ now >= hc => ~s.isOpen /\ s.nextEvent = "opens"

\* open on an early-close day although a closeTime override is stored: the
\* announced close is the holiday's, not the override's
C4_Witness ==
    \E m \in markets :
        \E h \in EarlyCloseOn(m, Today(m)) :
            /\ overridesFor(m).closeTime # NoTime
            /\ overridesFor(m).closeTime # h.closeTime
            /\ StatusOf(m).isOpen
            /\ StatusOf(m).nextEvent = "closes"
            /\ StatusOf(m).nextEventTime = WallInstant(m, Today(m), h.closeTime)

(***************************************************************************)
(* C5.  At every instant whose exchange-local date is a full-closure       *)
(* holiday, nextEventTime is the open instant of the first date strictly   *)
(* after today that is neither a Saturday or Sunday nor a full-closure     *)
(* holiday.                                                                *)
(***************************************************************************)
C5_HolidayNextOpen ==
    \A m \in markets :
        ClosedOn(m, Today(m)) =>
            StatusOf(m).nextEventTime =
                OpenInstant(m, FirstTradingDay(m, Today(m) + 1))

(***************************************************************************)
(* C6.  In every branch timeUntil is nextEventTime - now and is not        *)
(* negative: the announced next event is never in the past.                *)
(***************************************************************************)
C6_TimeUntilNotNegative ==
    \A m \in markets :
        /\ StatusOf(m).timeUntil = StatusOf(m).nextEventTime - now
        /\ StatusOf(m).timeUntil >= 0

\* after the close of an ordinary day the next open is less than a day away
C6_Witness ==
    \E m \in markets :
        /\ StatusOf(m).branch = "AFTER_CLOSE"
        /\ StatusOf(m).timeUntil > 0
        /\ StatusOf(m).timeUntil < MinutesPerDay

(***************************************************************************)
(* C7.  The next-trading-day search started at a candidate on date d       *)
(* returns a candidate on the earliest date d' >= d that is a Monday to    *)
(* Friday and not a full-closure holiday (an early-close day is a trading  *)
(* day), whenever the search reaches d' with iterations to spare: it skips *)
(* no trading day and stops on no weekend day or closed holiday.           *)
(***************************************************************************)
\* the number of times the search moves on between date d and a later date
RECURSIVE AdvancesTo(_, _)
AdvancesTo(d, target) ==
    IF d >= target THEN 0
    ELSE 1 + AdvancesTo(d + (IF Weekday(d) = 6 THEN 2 ELSE 1), target)

C7_SearchFindsFirstTradingDay ==
    \A m \in markets :
        LET s == StatusOf(m)
            d == DateOf(m, s.searchStart)
            first == FirstTradingDay(m, d)
        IN  (UsedSearch(s) /\ AdvancesTo(d, first) < 14) =>
                DateOf(m, s.nextEventTime) = first

\* a search that started on a closed Friday's Saturday and went past a weekend
\* to reach an early-close Monday, or went past two closed days in a row
C7_Witness ==
    \E m \in markets :
        LET s == StatusOf(m)
            d == DateOf(m, s.searchStart)
        IN  /\ UsedSearch(s)
            /\ s.attempts >= 1
            /\ s.attempts < 14
            /\ \/ Weekday(d) = 6
               \/ s.attempts >= 2
            /\ DateOf(m, s.nextEventTime) = FirstTradingDay(m, d)
            /\ ~NoEntryOn(m, FirstTradingDay(m, d))

(***************************************************************************)
(* C8.  The instant the next-trading-day search returns, and so the        *)
(* nextEventTime of every 'opens' event on a later date, shows the         *)
(* effective open wall-clock time on the clocks of the exchange's          *)
(* timezone, also when the exchange's UTC offset changes between today and *)
(* the returned date.                                                      *)
(***************************************************************************)
C8_SearchReturnsOpenTime ==
    \A m \in markets :
        UsedSearch(StatusOf(m)) =>
            WallMinuteOf(m, StatusOf(m).nextEventTime) = MinuteOfDay(OpenTimeOf(m))

(***************************************************************************)
(* C9.  The search uses at most 14 iterations for every start date and     *)
(* holiday table; when all 14 moved past a weekend day or closed holiday   *)
(* it returns the candidate it then holds, and getMarketStatus returns an  *)
(* ordinary 'opens' status.                                                *)
(***************************************************************************)
\* the date the search holds after n moves from date d
RECURSIVE AdvanceDate(_, _)
AdvanceDate(d, n) ==
    IF n = 0 THEN d
    ELSE AdvanceDate(d + (IF Weekday(d) = 6 THEN 2 ELSE 1), n - 1)

SessionStates ==
    {"HOLIDAY_CLOSED", "WEEKEND_CLOSED", "BEFORE_OPEN", "OPEN", "ON_LUNCH", "AFTER_CLOSE"}

C9_SearchBounded ==
    \A m \in markets :
        LET s == StatusOf(m) IN
        /\ s.branch \in SessionStates
        /\ s.attempts <= 14
        /\ s.attempts = 14 =>
               /\ s.nextEvent = "opens"
               /\ ~s.isOpen
               /\ s.nextEventTime > now
               /\ DateOf(m, s.nextEventTime) = AdvanceDate(DateOf(m, s.searchStart), 14)

\* a closure long enough to use up all 14 iterations
C9_Witness ==
    \E m \in markets :
        /\ StatusOf(m).attempts = 14
        /\ ~IsTradingDay(m, DateOf(m, StatusOf(m).nextEventTime))

(***************************************************************************)
(* C10.  For a market with no lunch break and no holidays, rendering at    *)
(* increasing instants through a week gives, on each of Monday to Friday,  *)
(* before-open, then open, then after-close, and the weekend state all     *)
(* through Saturday and Sunday; from one render to the next in the same    *)
(* state timeUntil strictly decreases.                                     *)
(***************************************************************************)
C10_StateAt(m, t) ==
    LET date == DateOf(m, t) IN
    IF ~IsWeekday(date) THEN "WEEKEND_CLOSED"
    ELSE IF t < OpenInstant(m, date) THEN "BEFORE_OPEN"
    ELSE IF t < CloseInstant(m, date) THEN "OPEN"
    ELSE "AFTER_CLOSE"

C10_Step ==
    \A m \in markets :
        (~hasLunch(m) /\ holidaysCache = NoHolidays) =>
            /\ statuses'[m.id].branch = C10_StateAt(m, now')
            /\ statuses'[m.id].branch = statuses[m.id].branch =>
                   statuses'[m.id].timeUntil < statuses[m.id].timeUntil

C10_WeekSequence == [][C10_Step]_vars

(***************************************************************************)
(* C11.  In every result of getMarketStatus at most one of isOpen,         *)
(* isOnLunch, isWeekend and isTodayHoliday is true; an open market's next  *)
(* event is 'closes' or 'lunch-starts'; isOnLunch holds exactly when the   *)
(* next event is 'reopens'; and when the market is neither open nor on     *)
(* lunch the next event is 'opens'.                                        *)
(***************************************************************************)
FlagsSet(s) ==
    {f \in {"isOpen", "isOnLunch", "isWeekend", "isTodayHoliday"} : s[f]}

C11_StatesExclusive ==
    \A m \in markets :
        LET s == StatusOf(m) IN
        /\ Cardinality(FlagsSet(s)) <= 1
        /\ s.isOpen => s.nextEvent \in {"closes", "lunch-starts"}
        /\ s.isOnLunch <=> s.nextEvent = "reopens"
        /\ (~s.isOpen /\ ~s.isOnLunch) => s.nextEvent = "opens"

\* on its lunch break on an early-close day: the date has a holiday entry, and
\* still isOnLunch is the one flag that is set
C11_Witness ==
    \E m \in markets :
        /\ EarlyCloseOn(m, Today(m)) # {}
        /\ FlagsSet(StatusOf(m)) = {"isOnLunch"}
        /\ StatusOf(m).nextEvent = "reopens"

(***************************************************************************)
(* C12.  Round trip: for every sampled instant t and every zone, the       *)
(* fixed-offset zones from UTC-12:00 to UTC+14:00 among them, converting   *)
(* the zone-local date and HH:MM of t back (parseTimeInTimezone on the     *)
(* local date of t, getDateFromIsoInTz on the local date and time) gives   *)
(* t, unless t is within one hour of a DST transition of the zone.         *)
(***************************************************************************)
HasTransition(timezone) == TzRule(timezone).before # TzRule(timezone).after

NearTransition(timezone, t) ==
    /\ HasTransition(timezone)
    /\ t >= TzRule(timezone).at - 60
    /\ t <= TzRule(timezone).at + 60

C12_RoundTrip ==
    (probe.fn = "parseTimeInTimezone" /\ ~NearTransition(probe.timezone, probe.t)) =>
        /\ probe.result = probe.t
        /\ probe.isoResult = probe.t

(***************************************************************************)
(* C13.  The offset the converters derive is, after the add/subtract-1440  *)
(* correction, greater than -720 and at most 720, for every raw difference *)
(* from -1439 to 1439 and in every conversion.                             *)
(***************************************************************************)
C13_OffsetInRange ==
    /\ probe.fn = "normalizeOffset" => (probe.result > -720 /\ probe.result <= 720)
    /\ probe.fn = "parseTimeInTimezone" => (probe.diffMins > -720 /\ probe.diffMins <= 720)

(***************************************************************************)
(* C14.  After any sequence of setTime, freeze, unfreeze, reset and        *)
(* setTimezone calls and real-clock advances, getNow() is the frozen       *)
(* instant when the clock is paused, however much real time has passed     *)
(* since the last call, and the real clock plus the offset otherwise, so   *)
(* that it then moves with the real clock.                                 *)
(***************************************************************************)
C14_GetNow ==
    /\ getNow = IF isPaused THEN frozenTime ELSE realNow + clockOffset
    /\ isPaused => getNow = lastCall.shown
    /\ ~isPaused => getNow = lastCall.shown + (realNow - lastCall.at)

\* paused with a non-zero offset, two ticks of the real clock after the last
\* call: getNow() still returns what it returned then
C14_Witness ==
    /\ isPaused
    /\ clockOffset # 0
    /\ realNow >= lastCall.at + 2
    /\ getNow = lastCall.shown
    /\ getNow # realNow + clockOffset

(***************************************************************************)
(* C15.  Right after setTime(target) getNow() is target, paused or not,    *)
(* and the paused flag is as before.  Not paused, the clock runs on from   *)
(* target with the real clock.  Paused, getNow() stays target while real   *)
(* time passes and through freeze and setTimezone calls, until the next    *)
(* setTime, unfreeze or reset.                                             *)
(***************************************************************************)
C15_SetTime ==
    /\ lastCall.op = "setTime" =>
           /\ lastCall.shown = lastCall.arg
           /\ isPaused = lastCall.pre.isPaused
           /\ getNow = IF isPaused THEN lastCall.arg
                       ELSE lastCall.arg + (realNow - lastCall.at)
    /\ (lastCall.op \in {"freeze", "setTimezone"} /\ lastCall.pre.isPaused) =>
           /\ isPaused
           /\ lastCall.shown = lastCall.before
           /\ getNow = lastCall.before

\* freeze(); setTime(x); then real time passes: getNow() is x, not the instant
\* the clock was frozen at
C15_Witness ==
    /\ lastCall.op = "setTime"
    /\ lastCall.pre.isPaused
    /\ lastCall.arg # lastCall.before
    /\ realNow >= lastCall.at + 2
    /\ getNow = lastCall.arg

(***************************************************************************)
(* C16.  After unfreeze() at real time r of a clock paused at instant f    *)
(* (also an f that setTime set during the pause), getNow() at every later  *)
(* real time r2 is f + (r2 - r), until the next call; unfreeze() on a      *)
(* clock that is not paused changes no field.                              *)
(***************************************************************************)
C16_Unfreeze ==
    lastCall.op = "unfreeze" =>
        IF lastCall.pre.isPaused
        THEN /\ ~isPaused
             /\ getNow = lastCall.pre.frozenTime + (realNow - lastCall.at)
        ELSE ClockState = lastCall.pre

\* unfrozen two ticks ago from an instant far from the real clock, after a
\* pause during which real time passed
C16_Witness ==
    /\ lastCall.op = "unfreeze"
    /\ lastCall.pre.isPaused
    /\ lastCall.pre.frozenTime = 90
    /\ lastCall.pre.clockOffset + lastCall.at # lastCall.pre.frozenTime
    /\ realNow = lastCall.at + 2
    /\ getNow = 92

(***************************************************************************)
(* C17.  freeze() leaves the clock paused at the value getNow() had just   *)
(* before the call; on a clock already paused, whatever real time has      *)
(* passed since, it changes neither the frozen instant nor the offset nor  *)
(* the paused flag.                                                        *)
(***************************************************************************)
C17_Freeze ==
    lastCall.op = "freeze" =>
        /\ isPaused
        /\ frozenTime = lastCall.before
        /\ getNow = lastCall.before
        /\ lastCall.pre.isPaused => ClockState = lastCall.pre

\* a second freeze() after real time has passed: the frozen instant is still
\* the first one, not what the running clock would show
C17_Witness ==
    /\ lastCall.op = "freeze"
    /\ lastCall.pre.isPaused
    /\ lastCall.prev.op = "freeze"
    /\ lastCall.prev.at < lastCall.at
    /\ frozenTime # lastCall.at + clockOffset
    /\ frozenTime = lastCall.pre.frozenTime

(***************************************************************************)
(* C18.  After reset(), whatever the offset, the paused flag and the       *)
(* timezone override were, getNow() is the real clock at every later time  *)
(* until the next call, getTimezone() is null and isSimulationActive() is  *)
(* false.                                                                  *)
(***************************************************************************)
C18_Reset ==
    lastCall.op = "reset" =>
        /\ getNow = realNow
        /\ getTimezone = Null
        /\ ~isSimulationActive

\* reset of a paused clock with an offset and a timezone override, then real
\* time passes; the stale frozen instant is still stored
C18_Witness ==
    /\ lastCall.op = "reset"
    /\ lastCall.pre.isPaused
    /\ lastCall.pre.clockOffset # 0
    /\ lastCall.pre.timezoneOverride # Null
    /\ realNow > lastCall.at
    /\ frozenTime # realNow
    /\ getNow = realNow

(***************************************************************************)
(* C19.  isSimulationActive() is true exactly when the offset is not zero, *)
(* or the clock is paused, or a timezone override is set.  It is false     *)
(* while no call has been made and after setTimezone('local') on a clock   *)
(* with no offset and no pause.  It is true after freeze() followed, after *)
(* real time has passed, by unfreeze(), when the offset was zero before:   *)
(* with an offset equal to the real time that passed during the pause the  *)
(* new offset is zero.                                                     *)
(***************************************************************************)
ActiveByFields == clockOffset # 0 \/ isPaused \/ timezoneOverride # Null

FreezeThenUnfreeze ==
    /\ lastCall.op = "unfreeze"
    /\ lastCall.prev.op = "freeze"
    /\ lastCall.prev.at < lastCall.at

C19_SimulationActive ==
    /\ isSimulationActive <=> ActiveByFields
    /\ lastCall.op = "init" => ~isSimulationActive
    /\ ( /\ lastCall.op = "setTimezone"
         /\ lastCall.arg = "local"
         /\ lastCall.pre.clockOffset = 0
         /\ ~lastCall.pre.isPaused ) => ~isSimulationActive
    /\ (FreezeThenUnfreeze /\ lastCall.pre.clockOffset = 0) => isSimulationActive

\* a clock with nothing set is frozen, real time passes, it is unfrozen: the
\* offset is now behind the real clock and the simulation is reported active
C19_Witness ==
    /\ FreezeThenUnfreeze
    /\ lastCall.pre.clockOffset = 0
    /\ lastCall.pre.timezoneOverride = Null
    /\ clockOffset < 0
    /\ ~isPaused
    /\ isSimulationActive

\* C19 as stated: true after freeze() followed by unfreeze() once real time
\* has passed in between, whatever the offset was
C19_AsStated ==
    /\ isSimulationActive <=> ActiveByFields
    /\ lastCall.op = "init" => ~isSimulationActive
    /\ ( /\ lastCall.op = "setTimezone"
         /\ lastCall.arg = "local"
         /\ lastCall.pre.clockOffset = 0
         /\ ~lastCall.pre.isPaused ) => ~isSimulationActive
    /\ FreezeThenUnfreeze => isSimulationActive

(***************************************************************************)
(* C20.  setTimezone leaves the offset, the paused flag and the frozen     *)
(* instant as they were, and so getNow(); setTime, freeze and unfreeze     *)
(* leave the timezone override as it was.                                  *)
(***************************************************************************)
C20_TimezoneOrthogonal ==
    /\ lastCall.op = "setTimezone" =>
           /\ clockOffset = lastCall.pre.clockOffset
           /\ isPaused = lastCall.pre.isPaused
           /\ frozenTime = lastCall.pre.frozenTime
           /\ lastCall.shown = lastCall.before
    /\ lastCall.op \in {"setTime", "freeze", "unfreeze"} =>
           timezoneOverride = lastCall.pre.timezoneOverride

\* the timezone override is changed on a paused clock that has an offset
C20_Witness ==
    /\ lastCall.op = "setTimezone"
    /\ timezoneOverride # lastCall.pre.timezoneOverride
    /\ timezoneOverride # Null
    /\ isPaused
    /\ clockOffset # 0
    /\ frozenTime # 0

(***************************************************************************)
(* C21.  getMarketHolidays(marketId, year) follows one alias: when the     *)
(* year's entry for marketId names another market whose entry is a list,   *)
(* the result is exactly that list; when the year is absent, the market    *)
(* is absent or the alias names an absent market, the result is the empty  *)
(* list; a list entry is returned as it is.                                *)
(***************************************************************************)
EmptyList == HolidayList(<<>>)

\* the table entry of a market in a year (Undefined when either is absent)
EntryOf(marketId, year) ==
    IF Lookup(holidaysCache, year) = Undefined THEN Undefined
    ELSE Lookup(holidaysCache[year], marketId)

IsAlias(entry) == entry # Undefined /\ entry.kind = "alias"
IsList(entry) == entry # Undefined /\ entry.kind = "list"

C21_OneAliasHop ==
    probe.fn = "getMarketHolidays" =>
        LET entry == EntryOf(probe.marketId, probe.year) IN
        /\ entry = Undefined => probe.result = EmptyList
        /\ IsList(entry) => probe.result = entry
        /\ IsAlias(entry) =>
               LET target == EntryOf(entry.target, probe.year) IN
               /\ target = Undefined => probe.result = EmptyList
               /\ IsList(target) =>
                      /\ probe.result = target
                      /\ probe.result = getMarketHolidays(entry.target, probe.year)

\* an alias entry that resolves to the other market's non-empty list
C21_Witness ==
    /\ probe.fn = "getMarketHolidays"
    /\ IsAlias(EntryOf(probe.marketId, probe.year))
    /\ IsList(probe.result)
    /\ Len(probe.result.entries) > 0
    /\ probe.result = EntryOf("nyse", probe.year)

(***************************************************************************)
(* C22.  When a market's entry is an alias whose target is an alias again  *)
(* (a chain or a cycle), getMarketHolidays returns the empty list and      *)
(* getMarketStatus of that market completes with an ordinary status.       *)
(***************************************************************************)
IsChained(marketId, year) ==
    /\ IsAlias(EntryOf(marketId, year))
    /\ IsAlias(EntryOf(EntryOf(marketId, year).target, year))

C22_ChainDegrades ==
    /\ (probe.fn = "getMarketHolidays" /\ IsChained(probe.marketId, probe.year)) =>
           probe.result = EmptyList
    /\ \A m \in markets :
           IsChained(m.id, YearOfDate(Today(m))) => StatusOf(m) # TypeError

(***************************************************************************)
(* C23.  formatCountdown(ms) is '00:00:00' for every negative ms.  For     *)
(* ms >= 0 it shows days = floor(ms / 86400000), hours in 0..23, minutes   *)
(* and seconds in 0..59, with days * 86400 + hours * 3600 + minutes * 60   *)
(* + seconds = floor(ms / 1000), each field as two digits, in the form     *)
(* 'Nd HH:MM:SS' exactly when days >= 1; and the duration shown for a      *)
(* smaller ms is never larger.                                             *)
(***************************************************************************)
\* the number two digits spell
Spelled(digits) == digits[1] * 10 + digits[2]

IsDigits(digits) == Len(digits) = 2 /\ digits[1] \in 0..9 /\ digits[2] \in 0..9

\* the duration in seconds a countdown string shows
ShownSeconds(c) ==
    (IF c.withDays THEN c.days * 86400 ELSE 0)
        + Spelled(c.hh) * 3600 + Spelled(c.mm) * 60 + Spelled(c.ss)

C23_Countdown ==
    probe.fn = "formatCountdown" =>
        LET c == probe.result IN
        /\ IsDigits(c.hh) /\ IsDigits(c.mm) /\ IsDigits(c.ss)
        /\ probe.ms < 0 => (~c.withDays /\ ShownSeconds(c) = 0)
        /\ probe.ms >= 0 =>
               /\ c.withDays <=> probe.ms \div 86400000 >= 1
               /\ c.withDays => c.days = probe.ms \div 86400000
               /\ Spelled(c.hh) \in 0..23
               /\ Spelled(c.mm) \in 0..59
               /\ Spelled(c.ss) \in 0..59
               /\ ShownSeconds(c) = probe.ms \div 1000
        /\ \A ms \in CountdownInputs :
               ms < probe.ms => ShownSeconds(formatCountdown(ms)) <= ShownSeconds(c)

\* one millisecond short of two days: '1d 23:59:59'
C23_Witness ==
    /\ probe.fn = "formatCountdown"
    /\ probe.ms = 2 * 86400000 - 1
    /\ probe.result.withDays
    /\ probe.result.days = 1
    /\ probe.result.hh = <<2, 3>>
    /\ probe.result.mm = <<5, 9>>
    /\ probe.result.ss = <<5, 9>>

(***************************************************************************)
(* C24.  For a timezone whose UTC offset changes at a transition, and for  *)
(* every local date and HH:MM outside the skipped or repeated local hour   *)
(* (local times on the transition day and the day before included), the    *)
(* instant the converter returns reads back as exactly that date and HH:MM *)
(* in the timezone.                                                        *)
(***************************************************************************)
\* the wall-clock times the transition skips (offset grows) or shows twice
\* (offset shrinks): the local times between the two readings of `at`
InTransitionHour(timezone, local) ==
    LET r == TzRule(timezone)
        l1 == r.at + r.before
        l2 == r.at + r.after
    IN  IF l1 < l2 THEN local >= l1 /\ local < l2 ELSE local >= l2 /\ local < l1

C24_ExactAroundDst ==
    ( /\ probe.fn = "parseTimeInTimezone"
      /\ HasTransition(probe.timezone)
      /\ ~InTransitionHour(probe.timezone, TzLocal(probe.timezone, probe.t)) ) =>
        /\ TzLocal(probe.timezone, probe.result) = TzLocal(probe.timezone, probe.t)
        /\ TzLocal(probe.timezone, probe.isoResult) = TzLocal(probe.timezone, probe.t)

(***************************************************************************)
(* C25.  After the close on a Friday the search started at the following   *)
(* Monday gives the same nextEventTime as the general search started at    *)
(* tomorrow (Saturday); on a Saturday or Sunday the search started at the  *)
(* coming Monday gives the same as the general search started at today.    *)
(* This holds whenever the general search finds its result with            *)
(* iterations to spare: the general search spends one of its 14 iterations *)
(* on the weekend, so over a closure that uses up the iterations it stops  *)
(* one closed day earlier.                                                 *)
(***************************************************************************)
\* today's open instant as getMarketStatus computes it at the render
TodayOpenDate(m) ==
    parseTimeInTimezone(effectiveOpenTime(m, overridesFor(m)), m.timezone, now)

\* the general search the shortcut stands for: from tomorrow after a Friday's
\* close, from today on a weekend day
GeneralSearch(m) ==
    IF StatusOf(m).branch = "WEEKEND_CLOSED"
    THEN findNextTradingDay(m, TodayOpenDate(m))
    ELSE findNextTradingDay(m, SetDatePlus(TodayOpenDate(m), 1))

UsesShortcut(m) ==
    \/ StatusOf(m).branch = "WEEKEND_CLOSED"
    \/ StatusOf(m).branch = "AFTER_CLOSE" /\ Weekday(Today(m)) = 5

C25_ShortcutEquivalent ==
    \A m \in markets :
        (UsesShortcut(m) /\ GeneralSearch(m).attempts < 14) =>
            StatusOf(m).nextEventTime = GeneralSearch(m).nextOpen

\* after the close of an early-close Friday before a closed Monday: both
\* searches end on Tuesday, the general one after one iteration more
C25_Witness ==
    \E m \in markets :
        /\ StatusOf(m).branch = "AFTER_CLOSE"
        /\ Weekday(Today(m)) = 5
        /\ StatusOf(m).attempts = 1
        /\ GeneralSearch(m).attempts = 2
        /\ StatusOf(m).nextEventTime = GeneralSearch(m).nextOpen

\* C25 as stated: the same result for every holiday calendar
C25_AsStated ==
    \A m \in markets :
        UsesShortcut(m) => StatusOf(m).nextEventTime = GeneralSearch(m).nextOpen

(***************************************************************************)
(* C26.  Within one getMarketStatus call the open, close and lunch         *)
(* instants are those of the exchange-local date of the `now` they are     *)
(* compared with, also when the clock moves across exchange-local midnight *)
(* between the reads of the call: before the open and during the session   *)
(* the open instant and the announced event are on today's date, and a     *)
(* search starts the stated number of days after today.                    *)
(***************************************************************************)
\* days from today to the first candidate of the search of a branch
SearchOffsetDays(m, branch) ==
    IF branch = "HOLIDAY_CLOSED" THEN 1
    ELSE IF branch = "WEEKEND_CLOSED" THEN daysUntilMonday(Weekday(Today(m)))
    ELSE daysToNextCandidate(Weekday(Today(m)))

C26_OneDatePerCall ==
    \A m \in markets :
        LET s == StatusOf(m) IN
        IF UsedSearch(s)
        THEN DateOf(m, s.searchStart) = Today(m) + SearchOffsetDays(m, s.branch)
        ELSE /\ DateOf(m, s.searchStart) = Today(m)
             /\ DateOf(m, s.nextEventTime) = Today(m)

(***************************************************************************)
(* C27.  The announced next event happens: classifying the market at the   *)
(* announced nextEventTime, the configuration unchanged, gives the state   *)
(* the event announces ('opens' and 'reopens': open; 'lunch-starts': on    *)
(* lunch; 'closes': neither open nor on lunch).                            *)
(***************************************************************************)
\* the status of the market at the instant its displayed status announces
StatusAtEvent(m) == getMarketStatus(m, overridesFor(m), StatusOf(m).nextEventTime)

EventHappens(m) ==
    LET s  == StatusOf(m)
        sT == StatusAtEvent(m)
    IN  /\ s.nextEvent \in {"opens", "reopens"} => sT.isOpen
        /\ s.nextEvent = "lunch-starts" => sT.isOnLunch
        /\ s.nextEvent = "closes" => ~sT.isOpen /\ ~sT.isOnLunch

C27_EventHappens == \A m \in markets : EventHappens(m)

\* the part of C27 that does not involve a search for the next trading day
C27_SameDayEvents == \A m \in markets : ~UsedSearch(StatusOf(m)) => EventHappens(m)

(***************************************************************************)
(* C28.  After 'Save all' the stored override of every market matches its  *)
(* row inputs: a market whose open and close inputs both equal its default *)
(* times has no stored override, and any other market's stored override    *)
(* holds exactly the changed fields, with null for the unchanged one.      *)
(***************************************************************************)
StoredMatchesRow(m) ==
    LET row == probe.inputs[m.id]
        stored == Lookup(timeOverrides, m.id)
    IN  IF row.open = m.openTime /\ row.close = m.closeTime
        THEN stored = Undefined
        ELSE stored = TimeOverride(IF row.open # m.openTime THEN row.open ELSE NoTime,
                                   IF row.close # m.closeTime THEN row.close ELSE NoTime)

C28_SaveAllMatchesRows ==
    (probe.fn = "editor" /\ probe.op = "saveAllChanges") =>
        \A m \in markets : StoredMatchesRow(m)

\* the part of C28 about the rows that differ from the defaults
C28_ChangedRowsStored ==
    (probe.fn = "editor" /\ probe.op = "saveAllChanges") =>
        \A m \in markets :
            (openChanged(m.id) \/ closeChanged(m.id)) => StoredMatchesRow(m)

(***************************************************************************)
(* C29.  The 'Next Monday' jump sets the simulated clock to 09:30 local    *)
(* time of the viewer on a Monday whose calendar date is strictly after    *)
(* the simulated date of the moment of the jump, for every starting        *)
(* weekday; from a Monday the target is the Monday of the following week.  *)
(***************************************************************************)
HostDate(t) == TzLocal(viewerTz, t) \div MinutesPerDay

HostMinute(t) == TzLocal(viewerTz, t) % MinutesPerDay

JumpedToNextMonday == lastCall.op = "handleJump" /\ lastCall.arg = "next-monday"

C29_NextMonday ==
    JumpedToNextMonday =>
        /\ HostMinute(lastCall.shown) = 9 * 60 + 30
        /\ getDay(HostDate(lastCall.shown)) = 1
        /\ HostDate(lastCall.shown) > HostDate(lastCall.before)
        /\ getDay(HostDate(lastCall.before)) = 1 =>
               HostDate(lastCall.shown) = HostDate(lastCall.before) + 7

\* the part of C29 about the jumps that do not start on a Monday
C29_FromOtherDays ==
    (JumpedToNextMonday /\ getDay(HostDate(lastCall.before)) # 1) =>
        /\ HostMinute(lastCall.shown) = 9 * 60 + 30
        /\ getDay(HostDate(lastCall.shown)) = 1
        /\ HostDate(lastCall.shown) > HostDate(lastCall.before)
        /\ HostDate(lastCall.shown) <= HostDate(lastCall.before) + 6

(***************************************************************************)
(* C30.  formatGMTOffset is the inverse of the parsing of getGMTOffset:    *)
(* for every non-zero offset text between GMT-12 and GMT+14 in quarter     *)
(* hours, parsing it and formatting the result gives back the same sign,   *)
(* hour and minute, negative offsets with a minute part included.          *)
(***************************************************************************)
GmtRendered == probe.fn = "renderMarketRow" /\ probe.rendered

C30_FormatInvertsParse ==
    (GmtRendered /\ probe.zone # 0) => probe.gmtOffset = probe.text

\* the part of C30 about whole hours and about offsets east of Greenwich
C30_WholeOrPositive ==
    (GmtRendered /\ probe.zone # 0 /\ (probe.zone > 0 \/ probe.zone % 60 = 0)) =>
        probe.gmtOffset = probe.text

=============================================================================
